---- MODULE Spec2Model ----
(***************************************************************************)
(* A model of cosmix: the fixed-volume mix engine (fixed_volume_mix.py)    *)
(* and the layout-driven placement of the mixes' tables on the Targets     *)
(* sheet (gsheets_integration.py, create_targets).                         *)
(*                                                                         *)
(* Quantities.  A pint Quantity is modelled by its magnitude in the mix's  *)
(* default unit (microlitres for volumes, nanomolar for concentrations),   *)
(* as an exact fraction [n |-> numerator, d |-> denominator] in lowest     *)
(* terms with d > 0.  Python's None is the record with d = 0, so that a    *)
(* field is either a fraction or None without mixing types.  Floating      *)
(* point rounding is not modelled: arithmetic is exact.                    *)
(***************************************************************************)
EXTENDS Integers, Sequences, FiniteSets, TLC

\* ------------------------------------------------------------------------
\* Bounds of the model
\* ------------------------------------------------------------------------
MaxSpecies == 2
MaxResizes == 1
\* numerators and denominators of the quantities the model follows
MaxMagnitude == 30000
\* the plate of the layout sheet (8 rows A-H of 12 columns in the program)
NumRows == 2
NumCols == 2
\* non-blank cells of the layout sheet
MaxFilled == 3

\* ------------------------------------------------------------------------
\* Quantities
\* ------------------------------------------------------------------------
None == [n |-> 0, d |-> 0]

IsNone(q) == q.d = 0

\* the result of an operation whose exact value has a numerator or a
\* denominator that the model's integers cannot hold
OutOfRange == [n |-> 0, d |-> -1]

Abs(x) == IF x < 0 THEN -x ELSE x

\* x * y can be computed
Fits(x, y) == y = 0 \/ Abs(x) <= (MaxMagnitude * MaxMagnitude) \div Abs(y)

RECURSIVE GCD(_, _)
GCD(a, b) == IF b = 0 THEN a ELSE GCD(b, a % b)

\* the fraction n/d (d > 0) in lowest terms
Q(n, d) == LET g == GCD(Abs(n), d) IN [n |-> n \div g, d |-> d \div g]

Zero == Q(0, 1)

\* a and b can be brought to their least common denominator
Commensurable(a, b) ==
    /\ a.d > 0 /\ b.d > 0
    /\ LET g == GCD(a.d, b.d)
       IN  /\ Fits(a.n, b.d \div g)
           /\ Fits(b.n, a.d \div g)
           /\ Fits(a.d \div g, b.d)

QAdd(a, b) ==
    IF Commensurable(a, b)
    THEN LET g == GCD(a.d, b.d)
         IN  Q(a.n * (b.d \div g) + b.n * (a.d \div g), (a.d \div g) * b.d)
    ELSE OutOfRange

QSub(a, b) ==
    IF Commensurable(a, b)
    THEN LET g == GCD(a.d, b.d)
         IN  Q(a.n * (b.d \div g) - b.n * (a.d \div g), (a.d \div g) * b.d)
    ELSE OutOfRange

\* cancelled crosswise before multiplying
QMul(a, b) ==
    IF a.d > 0 /\ b.d > 0
    THEN LET x == Q(a.n, b.d)
             y == Q(b.n, a.d)
         IN  IF Fits(x.n, y.n) /\ Fits(x.d, y.d)
             THEN [n |-> x.n * y.n, d |-> x.d * y.d]
             ELSE OutOfRange
    ELSE OutOfRange

\* a / b for b # 0
QDiv(a, b) ==
    IF b.d <= 0 THEN OutOfRange
    ELSE IF b.n > 0 THEN QMul(a, [n |-> b.d, d |-> b.n])
    ELSE QMul(a, [n |-> -b.d, d |-> -b.n])

\* The comparisons are only used on quantities within MaxMagnitude, which
\* are commensurable.
QLe(a, b) ==
    /\ Commensurable(a, b)
    /\ LET g == GCD(a.d, b.d) IN a.n * (b.d \div g) <= b.n * (a.d \div g)

QLt(a, b) ==
    /\ Commensurable(a, b)
    /\ LET g == GCD(a.d, b.d) IN a.n * (b.d \div g) < b.n * (a.d \div g)

\* the relative tolerance FLOAT_TOLERANCE_EQ = 1e-4 is 1 / FLOAT_TOLERANCE_EQ_INV
FLOAT_TOLERANCE_EQ_INV == 10000

\* numpy's default absolute tolerance atol = 1e-8 is
\* 1 / (FLOAT_TOLERANCE_EQ_INV * ATOL_OVER_RTOL_INV)
ATOL_OVER_RTOL_INV == 10000

\* np.isclose(a, b, rtol): |a - b| <= atol + rtol * |b|.  With a = x/L and
\* b = y/L over their least common denominator L, multiplied by L * 10^8,
\* this is
\*   10^8 * |x - y| <= L + 10^4 * |y|
\* and, the left side being a multiple of 10^8, it is the comparison below
\* (written with integer divisions to stay within TLC's integers).
isclose(a, b) ==
    /\ Commensurable(a, b)
    /\ LET g == GCD(a.d, b.d)
           x == a.n * (b.d \div g)
           y == b.n * (a.d \div g)
           L == (a.d \div g) * b.d
       IN  Abs(x - y) <= ((L \div ATOL_OVER_RTOL_INV) + Abs(y)) \div FLOAT_TOLERANCE_EQ_INV

\* q is None or a fraction the model follows
InRange(q) == IsNone(q) \/ (q.d > 0 /\ q.d <= MaxMagnitude /\ Abs(q.n) <= MaxMagnitude)

\* ------------------------------------------------------------------------
\* MixSpecies and FixedVolumeMix.  A mix is the record
\* [total_target_volume, species_list]; the operations below return the mix
\* they leave behind together with the exception they raise ("none" when
\* they return normally).
\* ------------------------------------------------------------------------
MixSpecies(species_name, stock_conc, target_conc, target_volume) ==
    [species_name |-> species_name, stock_conc |-> stock_conc,
     target_conc |-> target_conc, target_volume |-> target_volume]

FixedVolumeMix(total, species) ==
    [total_target_volume |-> total, species_list |-> species]

Outcome(mix, raised) == [mix |-> mix, raised |-> raised]

\* The Python exception class of each failure.
ExceptionClass(raised) ==
    CASE raised = "none" -> "none"
      [] raised = "OverAllocatedVolume" -> "ValueError"
      [] raised = "VolumeNotMet" -> "ValueError"
      [] raised = "ReferenceNotFound" -> "ValueError"
      [] raised = "ReferenceUnresolved" -> "ValueError"
      [] raised = "AssertionError" -> "AssertionError"
      [] raised = "TypeError" -> "TypeError"
      [] raised = "ZeroDivisionError" -> "ZeroDivisionError"

RECURSIVE SumVolumes(_, _)
SumVolumes(species, k) ==
    IF k = 0 THEN Zero
    ELSE IF IsNone(species[k].target_volume) THEN SumVolumes(species, k - 1)
    ELSE QAdd(SumVolumes(species, k - 1), species[k].target_volume)

computed_volume(mix) == SumVolumes(mix.species_list, Len(mix.species_list))

\* the condition under which _check_computed_volume raises
_check_computed_volume_never(mix) == FALSE

_check_computed_volume(mix) ==
    LET computed == computed_volume(mix)
    IN  /\ QLt(mix.total_target_volume, computed)
        /\ ~isclose(computed, mix.total_target_volume)

\* check_target_volume_is_met raises or returns, and leaves the mix as it is
check_target_volume_is_met(mix) ==
    Outcome(mix, IF isclose(computed_volume(mix), mix.total_target_volume)
                 THEN "none" ELSE "VolumeNotMet")

\* the volume add_species records
derived_volume_swapped(mix, stock_conc, target_conc, target_volume) ==
    IF IsNone(target_volume)
    THEN IF ~IsNone(stock_conc) /\ ~IsNone(target_conc)
         THEN QDiv(QMul(stock_conc, mix.total_target_volume), target_conc)
         ELSE None
    ELSE target_volume

derived_volume(mix, stock_conc, target_conc, target_volume) ==
    IF IsNone(target_volume)
    THEN IF ~IsNone(stock_conc) /\ ~IsNone(target_conc)
         THEN QDiv(QMul(target_conc, mix.total_target_volume), stock_conc)
         ELSE None
    ELSE target_volume

add_species(mix, species_name, stock_conc, target_conc, target_volume) ==
    LET appended ==
            FixedVolumeMix(
                mix.total_target_volume,
                Append(mix.species_list,
                       MixSpecies(species_name, stock_conc, target_conc,
                                  derived_volume(mix, stock_conc, target_conc,
                                                 target_volume))))
    IN  Outcome(appended,
                IF _check_computed_volume(appended)
                THEN "OverAllocatedVolume" ELSE "none")

\* index of the first species named name, 0 if there is none
RECURSIVE FirstNamed(_, _, _)
FirstNamed(species, name, k) ==
    IF k > Len(species) THEN 0
    ELSE IF species[k].species_name = name THEN k
    ELSE FirstNamed(species, name, k + 1)

RECURSIVE LastNamed(_, _, _)
LastNamed(species, name, k) ==
    IF k = 0 THEN 0
    ELSE IF species[k].species_name = name THEN k
    ELSE LastNamed(species, name, k - 1)

reference_index_last(mix, name) == LastNamed(mix.species_list, name, Len(mix.species_list))

reference_index(mix, name) == FirstNamed(mix.species_list, name, 1)

\* stock_conc is a concentration (not None, not zero)
add_species_relative_to(mix, species_name, stock_conc, relative_to_species_name, excess) ==
    LET r == reference_index(mix, relative_to_species_name)
    IN  IF r = 0 THEN Outcome(mix, "ReferenceNotFound")
        ELSE IF IsNone(mix.species_list[r].target_conc)
        THEN Outcome(mix, "ReferenceUnresolved")
        ELSE LET target_conc == QMul(excess, mix.species_list[r].target_conc)
                 target_volume ==
                     QDiv(QMul(target_conc, mix.total_target_volume), stock_conc)
             IN  add_species(mix, species_name, stock_conc, target_conc, target_volume)

\* inverse_fraction is not zero
add_species_volume_fraction(mix, species_name, inverse_fraction) ==
    add_species(mix, species_name, None, None,
                QDiv(mix.total_target_volume, inverse_fraction))

add_species_volume_complete_with_no_tolerance(mix, species_name) ==
    LET remaining == QSub(mix.total_target_volume, computed_volume(mix))
    IN  IF ~QLe(Zero, remaining)
        THEN Outcome(mix, "AssertionError")
        ELSE add_species(mix, species_name, None, None, remaining)

add_species_volume_complete_with(mix, species_name) ==
    LET computed == computed_volume(mix)
        remaining == QSub(mix.total_target_volume, computed)
    IN  IF isclose(computed, mix.total_target_volume)
        THEN add_species(mix, species_name, None, None, Zero)
        ELSE IF ~QLe(Zero, remaining)
        THEN Outcome(mix, "AssertionError")
        ELSE add_species(mix, species_name, None, None, remaining)

\* resize: the loop rescales the species one after the other and stops at
\* the first one whose rescaling raises: ZeroDivisionError when the basis is
\* zero (the quotient is evaluated first), TypeError when the species'
\* target_volume is None.  The species before it stay rescaled, and
\* total_target_volume is only replaced when the loop completes.
volume_resize_from_total(mix, use_target_volume) == mix.total_target_volume

volume_resize_from(mix, use_target_volume) ==
    IF use_target_volume THEN mix.total_target_volume ELSE computed_volume(mix)

RECURSIVE FirstNullVolume(_, _)
FirstNullVolume(species, k) ==
    IF k > Len(species) THEN 0
    ELSE IF IsNone(species[k].target_volume) THEN k
    ELSE FirstNullVolume(species, k + 1)

\* index of the species at which the loop of resize raises, 0 if it completes
resize_stops_at(mix, basis) ==
    IF Len(mix.species_list) = 0 THEN 0
    ELSE IF basis.n = 0 THEN 1
    ELSE FirstNullVolume(mix.species_list, 1)

rescaled(species, new_total_target_volume, basis) ==
    [species EXCEPT !.target_volume =
        QMul(QDiv(new_total_target_volume, basis), species.target_volume)]

resize(mix, new_total_target_volume, use_target_volume) ==
    LET basis == volume_resize_from(mix, use_target_volume)
        stop == resize_stops_at(mix, basis)
        last_done == IF stop = 0 THEN Len(mix.species_list) ELSE stop - 1
        species == [k \in 1..Len(mix.species_list) |->
                       IF k <= last_done
                       THEN rescaled(mix.species_list[k], new_total_target_volume, basis)
                       ELSE mix.species_list[k]]
    IN  IF stop = 0
        THEN Outcome(FixedVolumeMix(new_total_target_volume, species), "none")
        ELSE Outcome(FixedVolumeMix(mix.total_target_volume, species),
                     IF basis.n = 0 THEN "ZeroDivisionError" ELSE "TypeError")

\* ------------------------------------------------------------------------
\* The mix as a state machine: one FixedVolumeMix object and the calls made
\* on it.  last records the latest call, its arguments and the exception it
\* raised; clean is TRUE as long as no call that alters the mix has raised.
\* ------------------------------------------------------------------------
VARIABLES total_target_volume, species_list, last, clean, resizes

mix_vars == <<total_target_volume, species_list, last, clean, resizes>>

\* create_targets: the arguments merge_repeats and place_titles_above_tables,
\* the values of the layout sheet, the mutating calls received by the
\* workbook, the locals of the function (loop_i is the row index i, banding_k
\* the table counter k) and pc, the place it has reached.
VARIABLES pc, merge_repeats, place_titles_above_tables,
          insert_formulas_instead_of_values, layout_values, calls,
          layout, tabled_layout, not_only_repeats_row, not_only_repeats_col,
          i0, j0, loop_i, banding_k, current_row, placed, tables, raised_by

targets_vars ==
    <<pc, merge_repeats, place_titles_above_tables,
      insert_formulas_instead_of_values, layout_values, calls,
      layout, tabled_layout, not_only_repeats_row, not_only_repeats_col,
      i0, j0, loop_i, banding_k, current_row, placed, tables, raised_by>>

vars == <<mix_vars, targets_vars>>

self == FixedVolumeMix(total_target_volume, species_list)

\* inputs of the calls, in the default units
InitialTotals == {Q(100, 1)}
Names == {"A", "B"}
\* (species_name, stock_conc, target_conc, target_volume) of add_species
AddSpeciesArguments ==
    { <<"A", Q(1000, 1), Q(10, 1), None>>,
      <<"A", Q(500, 1), None, None>>,
      <<"B", None, Q(10, 1), None>>,
      <<"B", None, None, Q(1, 100)>>,
      <<"B", None, None, Q(10, 1)>>,
      <<"A", Q(1000, 1), Q(10, 1), Q(9999, 100)>> }
RelativeStockConcs == {Q(500, 1)}
Excesses == {Q(2, 1), Q(60, 1)}
InverseFractions == {Q(1, 1), Q(2, 1)}
NewTotals == {Q(50, 1), Q(200, 1)}

NoCall ==
    [op |-> "__init__", raised |-> "none",
     species_name |-> "", stock_conc |-> None, target_conc |-> None,
     target_volume |-> None, relative_to_species_name |-> "",
     excess |-> None, inverse_fraction |-> None,
     new_total_target_volume |-> None, use_target_volume |-> FALSE]

\* every quantity of the mix is one the model follows
MixInRange(mix) ==
    /\ InRange(mix.total_target_volume)
    /\ \A k \in 1..Len(mix.species_list) :
          /\ InRange(mix.species_list[k].stock_conc)
          /\ InRange(mix.species_list[k].target_conc)
          /\ InRange(mix.species_list[k].target_volume)
    /\ InRange(computed_volume(mix))

\* the call leaves the object as in outcome
Returns(call, outcome) ==
    LET o == outcome
    IN  /\ Len(o.mix.species_list) <= MaxSpecies
        /\ MixInRange(o.mix)
        /\ total_target_volume' = o.mix.total_target_volume
        /\ species_list' = o.mix.species_list
        /\ last' = [call EXCEPT !.raised = o.raised]
        /\ clean' = (clean /\ o.raised = "none")
        /\ UNCHANGED targets_vars

\* the locals of create_targets before they are assigned
NoLocals ==
    /\ layout = <<>>
    /\ tabled_layout = <<>>
    /\ not_only_repeats_row = {}
    /\ not_only_repeats_col = {}
    /\ i0 = 0
    /\ j0 = 0
    /\ loop_i = 0
    /\ banding_k = 0
    /\ current_row = 0
    /\ placed = {}
    /\ tables = <<>>
    /\ raised_by = "none"

\* create_targets is not running
TargetsIdle ==
    /\ pc = "idle"
    /\ merge_repeats = TRUE
    /\ place_titles_above_tables = FALSE
    /\ insert_formulas_instead_of_values = FALSE
    /\ layout_values = <<>>
    /\ calls = <<>>
    /\ NoLocals

\* no mix is being built by hand
MixIdle ==
    /\ total_target_volume = None
    /\ species_list = <<>>
    /\ last = NoCall
    /\ clean = TRUE
    /\ resizes = 0

MixInit ==
    /\ total_target_volume \in InitialTotals
    /\ species_list = <<>>
    /\ last = NoCall
    /\ clean = TRUE
    /\ resizes = 0
    /\ TargetsIdle

AddSpecies ==
    \E a \in AddSpeciesArguments :
        /\ Returns([NoCall EXCEPT !.op = "add_species", !.species_name = a[1],
                                  !.stock_conc = a[2], !.target_conc = a[3],
                                  !.target_volume = a[4]],
                   add_species(self, a[1], a[2], a[3], a[4]))
        /\ UNCHANGED resizes

AddSpeciesRelativeTo ==
    \E stock \in RelativeStockConcs, ref \in Names, excess \in Excesses :
        /\ Returns([NoCall EXCEPT !.op = "add_species_relative_to",
                                  !.species_name = "R", !.stock_conc = stock,
                                  !.relative_to_species_name = ref,
                                  !.excess = excess],
                   add_species_relative_to(self, "R", stock, ref, excess))
        /\ UNCHANGED resizes

AddSpeciesVolumeFraction ==
    \E inverse_fraction \in InverseFractions :
        /\ Returns([NoCall EXCEPT !.op = "add_species_volume_fraction",
                                  !.species_name = "F",
                                  !.inverse_fraction = inverse_fraction],
                   add_species_volume_fraction(self, "F", inverse_fraction))
        /\ UNCHANGED resizes

AddSpeciesVolumeCompleteWith ==
    /\ Returns([NoCall EXCEPT !.op = "add_species_volume_complete_with",
                              !.species_name = "W"],
               add_species_volume_complete_with(self, "W"))
    /\ UNCHANGED resizes

Resize ==
    \E new \in NewTotals, use_target_volume \in BOOLEAN :
        /\ resizes < MaxResizes
        /\ resizes' = resizes + 1
        /\ Returns([NoCall EXCEPT !.op = "resize",
                                  !.new_total_target_volume = new,
                                  !.use_target_volume = use_target_volume],
                   resize(self, new, use_target_volume))

\* check_target_volume_is_met assigns nothing
CheckTargetVolumeIsMet ==
    /\ last' = [NoCall EXCEPT !.op = "check_target_volume_is_met",
                              !.raised = check_target_volume_is_met(self).raised]
    /\ UNCHANGED <<total_target_volume, species_list, clean, resizes, targets_vars>>

MixNext ==
    \/ AddSpecies
    \/ AddSpeciesRelativeTo
    \/ AddSpeciesVolumeFraction
    \/ AddSpeciesVolumeCompleteWith
    \/ Resize

MixSpec == MixInit /\ [][MixNext]_vars

\* the mix with the calls of MixNext and check_target_volume_is_met
CheckedMixNext ==
    \/ MixNext
    \/ CheckTargetVolumeIsMet

CheckedMixSpec == MixInit /\ [][CheckedMixNext]_vars

\* ------------------------------------------------------------------------
\* create_targets.  The layout sheet is a plate of NumRows rows of NumCols
\* columns: its values are a header row followed by one row per plate row,
\* each starting with its row letter; a blank cell is "".  The arguments that
\* are not variables have their default values.
\* ------------------------------------------------------------------------
max_col_size == 4
empty_row_filler == 2
column_spacing == 1
row_spacing == 1
empty_desc == "empty"
add_total_line == TRUE
overwrite_target_sheet == FALSE

RowLetters == <<"A", "B", "C", "D", "E", "F", "G", "H">>

\* None in tabled_layout: no label is "", blank cells never enter the layout
NoSample == ""

\* the labels of the layout sheets the model follows
Labels == {empty_desc, "S1", "S2"}

PlateCells == (1..NumRows) \X (1..NumCols)

\* the values of the layout sheet whose cells in filled carry the labels of label
SheetValues(filled, label) ==
    [r \in 1..(NumRows + 1) |->
        [c \in 1..(NumCols + 1) |->
            IF r = 1 THEN (IF c = 1 THEN "" ELSE "#")
            ELSE IF c = 1 THEN RowLetters[r - 1]
            ELSE IF <<r - 1, c - 1>> \in filled THEN label[<<r - 1, c - 1>>]
            ELSE ""]]

\* The mixes of the caller's mix_parser: "S1" is a complete mix of two
\* species, the other labels have a third species whose volume is pending.
WithStock == add_species(FixedVolumeMix(Q(100, 1), <<>>), "A", Q(1000, 1), Q(10, 1), None).mix

CompleteMix == add_species_volume_complete_with(WithStock, "W").mix

WithPending == add_species(WithStock, "B", Q(500, 1), None, None).mix

PendingMix == add_species_volume_fraction(WithPending, "F", Q(2, 1)).mix

mix_parser(sample_desc) == IF sample_desc = "S1" THEN CompleteMix ELSE PendingMix

\* The number of columns returned by the caller's extra_columns_function.
extra_columns_function(mix) == Len(mix.species_list) - 1

\* the number of columns of species_table
SpeciesTableWidth == 4

\* len(table) and len(table[0]) of the table of create_gsheets_table
TableHeight(mix) == 1 + Len(mix.species_list) + (IF add_total_line THEN 1 ELSE 0)

TableWidth(mix) == SpeciesTableWidth + extra_columns_function(mix)

\* extract_layout_from_layout_sheet: the coordinate of a cell is the pair of
\* its row letter and its column number
AddCoordinate_overwriting(lay, cell_name, coordinate) ==
    IF cell_name \in DOMAIN lay
    THEN [lay EXCEPT ![cell_name] = <<coordinate>>]
    ELSE lay @@ (cell_name :> <<coordinate>>)

AddCoordinate(lay, cell_name, coordinate) ==
    IF cell_name \in DOMAIN lay
    THEN [lay EXCEPT ![cell_name] = Append(@, coordinate)]
    ELSE lay @@ (cell_name :> <<coordinate>>)

RECURSIVE ExtractRow(_, _, _)
ExtractRow(row, n, lay) ==
    IF n = 0 THEN lay
    ELSE LET before == ExtractRow(row, n - 1, lay)
             cell_name == row[n + 1]
         IN  IF cell_name # "" THEN AddCoordinate(before, cell_name, <<row[1], n>>)
             ELSE before

RECURSIVE ExtractRows(_, _)
ExtractRows(values, n) ==
    IF n = 0 THEN <<>>
    ELSE LET before == ExtractRows(values, n - 1)
         IN  IF \E l \in DOMAIN RowLetters : values[n][1] = RowLetters[l]
             THEN ExtractRow(values[n], NumCols, before)
             ELSE before

extract_layout_from_layout_sheet(values) == ExtractRows(values, Len(values))

\* inverse_layout and tabled_layout (rows and columns from 0, as in the code).
\* On these sheets a coordinate is listed under one label only.
TabledLayout(lay) ==
    [r \in 0..(NumRows - 1) |->
        [c \in 0..(NumCols - 1) |->
            LET cell_name == <<RowLetters[r + 1], c + 1>>
                samples == {sample \in DOMAIN lay :
                               \E n \in 1..Len(lay[sample]) : lay[sample][n] = cell_name}
            IN  IF samples = {} THEN NoSample ELSE CHOOSE sample \in samples : TRUE]]

\* cell (r, c) is where the row-major scan first sees its label
FirstSeen(table, r, c) ==
    /\ table[r][c] # NoSample
    /\ \A r2 \in 0..(NumRows - 1), c2 \in 0..(NumCols - 1) :
          (r2 < r \/ (r2 = r /\ c2 < c)) => table[r2][c2] # table[r][c]

NotOnlyRepeatsRow(table) ==
    {r \in 0..(NumRows - 1) : \E c \in 0..(NumCols - 1) : FirstSeen(table, r, c)}

NotOnlyRepeatsCol(table) ==
    {c \in 0..(NumCols - 1) : \E r \in 0..(NumRows - 1) : FirstSeen(table, r, c)}

BestTop_uncropped(table) == 0

\* _best_top_left
BestTop(table) ==
    LET rows == {r \in 0..(NumRows - 1) : \E c \in 0..(NumCols - 1) : table[r][c] # NoSample}
    IN  IF rows = {} THEN 0 ELSE CHOOSE r \in rows : \A r2 \in rows : r <= r2

BestLeft(table) ==
    LET cols == {c \in 0..(NumCols - 1) : \E r \in 0..(NumRows - 1) : table[r][c] # NoSample}
    IN  IF cols = {} THEN 0 ELSE CHOOSE c \in cols : \A c2 \in cols : c <= c2

\* getattr: the attributes of a species are the fields of its record
HasAttribute(species, name) == name \in DOMAIN species

\* _create_gsheets_table_aux: what the volume cell of a species holds, or the
\* exception that reading the species raises
volume_cell(species, formulas) ==
    IF ~formulas THEN "value"
    ELSE IF ~HasAttribute(species, "inverse_fraction") THEN "AttributeError"
    ELSE IF ~IsNone(species.inverse_fraction) THEN "=total/inverse_fraction"
    ELSE IF ~HasAttribute(species, "is_completion") THEN "AttributeError"
    ELSE IF species.is_completion THEN "=total-SUM(volumes)"
    ELSE "=target_conc*total/stock_conc"

_create_gsheets_table_aux(mix, formulas) ==
    [k \in 1..Len(mix.species_list) |-> volume_cell(mix.species_list[k], formulas)]

\* the width of the slot a layout column takes on the Targets sheet
column_advance_no_spacing == max_col_size

column_advance == max_col_size + column_spacing

Alphabet ==
    <<"A", "B", "C", "D", "E", "F", "G", "H", "I", "J", "K", "L", "M",
      "N", "O", "P", "Q", "R", "S", "T", "U", "V", "W", "X", "Y", "Z">>

\* the loop of xl_rowcol_to_cell on col_num (from 1): the column letters
RECURSIVE col_str(_)
col_str(col_num) ==
    IF col_num = 0 THEN <<>>
    ELSE LET remainder == IF col_num % Len(Alphabet) = 0 THEN Len(Alphabet)
                          ELSE col_num % Len(Alphabet)
         IN  Append(col_str((col_num - 1) \div Len(Alphabet)), Alphabet[remainder])

\* the cell ID of row_num, col_num (from 0): its column letters and its row
\* number (from 1)
xl_rowcol_to_cell(row_num, col_num) ==
    [col_str |-> col_str(col_num + 1), row |-> row_num + 1]

\* place_table_on_gsheets: the range of the values and the range of the
\* banding of a table of table_height rows and table_width columns
place_table_on_gsheets(top_left_origin, table_height, table_width) ==
    LET row0 == top_left_origin[1]
        col0 == top_left_origin[2]
    IN  [sheet_range |->
             [from |-> xl_rowcol_to_cell(row0, col0),
              to |-> xl_rowcol_to_cell(row0 + table_height, col0 + table_width)],
         banding |->
             [startRowIndex |-> row0, endRowIndex |-> row0 + table_height,
              startColumnIndex |-> col0, endColumnIndex |-> col0 + table_width]]

\* the test of lines 507 and 574: the layout column c takes a slot
keeps_alignment_of_first_cells(c) == c \in not_only_repeats_col

keeps_alignment(c) == c \in not_only_repeats_col \/ ~merge_repeats

\* Lines 516-542: the table of mix, of the sample of the layout cell (r, c),
\* at the cursor
PlacedTable(st, r, c, mix) ==
    LET title == IF place_titles_above_tables THEN 1 ELSE 0
    IN  [sample_desc |-> tabled_layout[r][c],
         cell |-> <<r, c>>,
         table_position |-> <<current_row + title, st.current_col>>,
         title_position |-> <<current_row, st.current_col>>,
         height |-> TableHeight(mix),
         width |-> TableWidth(mix),
         mix |-> mix,
         volume_cells |->
             _create_gsheets_table_aux(mix, insert_formulas_instead_of_values),
         update |->
             place_table_on_gsheets(<<current_row + title, st.current_col>>,
                                    TableHeight(mix), TableWidth(mix)),
         banding_ID |-> st.banding_k]

\* Lines 521-575: the table is built, which raises when a volume cell does,
\* and placed
Place(st, c, table) ==
    LET title == IF place_titles_above_tables THEN 1 ELSE 0
    IN  IF \E k \in DOMAIN table.volume_cells : table.volume_cells[k] = "AttributeError"
        THEN [st EXCEPT !.empty = FALSE, !.raised_by = "create_gsheets_table"]
        ELSE [st EXCEPT
                !.empty = FALSE,
                !.tables = Append(@, table),
                !.banding_k = @ + 1,
                !.max_table_height =
                    IF table.height + title > @ THEN table.height + title ELSE @,
                !.placed = @ \cup {table.sample_desc},
                !.current_col = IF keeps_alignment(c) THEN @ + column_advance ELSE @]

\* Lines 512-514: the mix of the sample, resized for its repeats
SampleMix(sample_desc) ==
    LET parsed == mix_parser(sample_desc)
        repeats == Len(layout[sample_desc])
    IN  IF merge_repeats /\ repeats > 1
        THEN resize(parsed, QMul(parsed.total_target_volume, Q(repeats, 1)), TRUE)
        ELSE Outcome(parsed, "none")

\* One iteration of the loop over the columns: the cell (r, c) of the layout.
\* st holds the locals the loop changes; the mix_parser raises at column
\* fail_at.
ScanCell(st, r, c, fail_at) ==
    LET sample_desc == tabled_layout[r][c]
    IN  IF \/ sample_desc = NoSample
           \/ sample_desc = empty_desc
           \/ (sample_desc \in st.placed /\ merge_repeats)
        THEN IF keeps_alignment(c)
             THEN [st EXCEPT !.current_col = @ + column_advance]
             ELSE st
        ELSE IF fail_at = c
        THEN [st EXCEPT !.empty = FALSE, !.raised_by = "mix_parser"]
        ELSE CHOOSE after \in
                 {IF resized.raised # "none"
                  THEN [st EXCEPT !.empty = FALSE, !.raised_by = "resize"]
                  ELSE Place(st, c, PlacedTable(st, r, c, resized.mix)) :
                     resized \in {SampleMix(sample_desc)}} : TRUE

RECURSIVE ScanCells(_, _, _, _)
ScanCells(st, r, c, fail_at) ==
    IF c >= NumCols \/ st.raised_by # "none" THEN st
    ELSE CHOOSE after \in {ScanCells(next, r, c + 1, fail_at) :
                              next \in {ScanCell(st, r, c, fail_at)}} : TRUE

\* the layout sheets the model follows
LayoutSheets ==
    UNION { {SheetValues(filled, label) : label \in [filled -> Labels]} :
            filled \in {f \in SUBSET PlateCells : Cardinality(f) <= MaxFilled} }

\* create_targets is called with or without formulas
Called(formulas) ==
    /\ MixIdle
    /\ pc = "start"
    /\ merge_repeats \in BOOLEAN
    /\ place_titles_above_tables \in BOOLEAN
    /\ insert_formulas_instead_of_values = formulas
    /\ layout_values \in LayoutSheets
    /\ calls = <<>>
    /\ NoLocals

TargetsInit == Called(FALSE)

FormulasInit == Called(TRUE)

\* Lines 446-462: the Targets sheet is looked up (the one call that changes
\* nothing), created if the workbook has none, deleted and created again,
\* and formatted.
PrepareTargetsSheet ==
    /\ pc = "start"
    /\ \E exists \in BOOLEAN :
          IF exists /\ ~overwrite_target_sheet
          THEN /\ pc' = "raised"
               /\ raised_by' = "overwrite_target_sheet"
               /\ calls' = calls \o <<"worksheet">>
          ELSE /\ pc' = "layout"
               /\ calls' = calls \o <<"worksheet">>
                                 \o (IF exists THEN <<>> ELSE <<"add_worksheet">>)
                                 \o <<"del_worksheet", "add_worksheet", "format">>
               /\ UNCHANGED raised_by
    /\ UNCHANGED <<mix_vars, merge_repeats, place_titles_above_tables,
                   insert_formulas_instead_of_values, layout_values,
                   layout, tabled_layout, not_only_repeats_row, not_only_repeats_col,
                   i0, j0, loop_i, banding_k, current_row, placed, tables>>

\* Lines 464-492: the layout is read and tabled.
ReadLayout ==
    /\ pc = "layout"
    /\ layout' = extract_layout_from_layout_sheet(layout_values)
    /\ tabled_layout' = TabledLayout(layout')
    /\ not_only_repeats_row' = NotOnlyRepeatsRow(tabled_layout')
    /\ not_only_repeats_col' = NotOnlyRepeatsCol(tabled_layout')
    /\ i0' = BestTop(tabled_layout')
    /\ j0' = BestLeft(tabled_layout')
    /\ loop_i' = i0'
    /\ pc' = "scan"
    /\ UNCHANGED <<mix_vars, merge_repeats, place_titles_above_tables,
                   insert_formulas_instead_of_values, layout_values,
                   calls, banding_k, current_row, placed, tables, raised_by>>

\* Lines 494-580: one iteration of the loop over the rows.
ScanRow ==
    /\ pc = "scan"
    /\ \E fail_at \in (-1)..(NumCols - 1) :
          \E st \in {ScanCells([current_col |-> 0, max_table_height |-> 0,
                                 empty |-> TRUE, placed |-> placed, tables |-> tables,
                                 banding_k |-> banding_k, raised_by |-> "none"],
                                loop_i, j0, fail_at)} :
              /\ placed' = st.placed
              /\ tables' = st.tables
              /\ banding_k' = st.banding_k
              /\ raised_by' = st.raised_by
              /\ IF st.raised_by # "none"
                 THEN /\ pc' = "raised"
                      /\ UNCHANGED <<current_row, loop_i>>
                 ELSE /\ current_row' =
                            IF loop_i \in not_only_repeats_row \/ ~merge_repeats \/ st.empty
                            THEN current_row + st.max_table_height + row_spacing
                                   + (IF ~st.empty THEN 0 ELSE empty_row_filler)
                            ELSE current_row
                      /\ loop_i' = loop_i + 1
                      /\ pc' = IF loop_i + 1 < NumRows THEN "scan" ELSE "write"
    /\ UNCHANGED <<mix_vars, merge_repeats, place_titles_above_tables,
                   insert_formulas_instead_of_values, layout_values,
                   calls, layout, tabled_layout, not_only_repeats_row,
                   not_only_repeats_col, i0, j0>>

\* Lines 582-605: the values and the requests are sent.
SendBatches ==
    /\ pc = "write"
    /\ calls' = calls \o <<"targets_sheet.batch_update", "workbook.batch_update">>
    /\ pc' = "done"
    /\ UNCHANGED <<mix_vars, merge_repeats, place_titles_above_tables,
                   insert_formulas_instead_of_values, layout_values,
                   layout, tabled_layout, not_only_repeats_row, not_only_repeats_col,
                   i0, j0, loop_i, banding_k, current_row, placed, tables, raised_by>>

TargetsNext ==
    \/ PrepareTargetsSheet
    \/ ReadLayout
    \/ ScanRow
    \/ SendBatches

TargetsSpec == TargetsInit /\ [][TargetsNext]_vars

\* create_targets with insert_formulas_instead_of_values
FormulasSpec == FormulasInit /\ [][TargetsNext]_vars

\* ------------------------------------------------------------------------
\* Properties of the mix
\* ------------------------------------------------------------------------
AllVolumesSet(species) == \A k \in 1..Len(species) : ~IsNone(species[k].target_volume)

SomeVolumeNull(species) == \E k \in 1..Len(species) : IsNone(species[k].target_volume)

\* c is at most t, up to the relative tolerance: c <= t * (1 + 1e-4)
AtMostWithinTolerance(c, t) ==
    QLe(c, QMul(t, Q(FLOAT_TOLERANCE_EQ_INV + 1, FLOAT_TOLERANCE_EQ_INV)))

\* the latest species of the list
Latest(species) == species[Len(species)]

\* C1 (as claimed): a call that raises the over-allocation error leaves the
\* species list exactly as it was before the call.
C1_OverAllocationLeavesListUnchanged ==
    [][last'.raised = "OverAllocatedVolume" => species_list' = species_list]_vars

\* C4: as long as no call has raised, computed_volume() is at most
\* total_target_volume up to the relative tolerance.
C4_VolumeConserved ==
    clean => AtMostWithinTolerance(computed_volume(self), total_target_volume)

\* C4 witness: after adds and a resize that all returned, the computed volume
\* is above the total, within the tolerance.
C4_Witness ==
    /\ clean
    /\ last.op = "resize"
    /\ Len(species_list) = 2
    /\ QLt(total_target_volume, computed_volume(self))

\* C5: add_species_volume_complete_with on a mix whose computed volume does
\* not exceed the total returns normally, appends exactly one species with
\* null concentrations and with volume total - computed (zero when computed
\* is within tolerance of the total), and computed_volume() is then within
\* tolerance of total_target_volume.
C5_CompleteWithFillsUp ==
    [][(/\ last'.op = "add_species_volume_complete_with"
        /\ QLe(computed_volume(self), total_target_volume))
       => (/\ last'.raised = "none"
           /\ total_target_volume' = total_target_volume
           /\ Len(species_list') = Len(species_list) + 1
           /\ SubSeq(species_list', 1, Len(species_list)) = species_list
           /\ Latest(species_list').species_name = last'.species_name
           /\ IsNone(Latest(species_list').stock_conc)
           /\ IsNone(Latest(species_list').target_conc)
           /\ Latest(species_list').target_volume =
                 (IF isclose(computed_volume(self), total_target_volume)
                  THEN Zero
                  ELSE QSub(total_target_volume, computed_volume(self)))
           /\ isclose(computed_volume(FixedVolumeMix(total_target_volume', species_list')),
                      total_target_volume'))]_vars

\* C5 witness: the completion species was added with volume zero to a mix
\* whose computed volume is within tolerance of the total without being it.
C5_Witness ==
    /\ last.op = "add_species_volume_complete_with"
    /\ last.raised = "none"
    /\ Len(species_list) = 2
    /\ Latest(species_list).target_volume = Zero
    /\ QLt(computed_volume(self), total_target_volume)

\* C6 (as claimed): resize, from a basis that is not zero, on a mix that has a
\* species with a null target_volume returns normally, leaves the null volumes null, rescales the
\* other species and replaces total_target_volume.
C6_ResizeSkipsNullVolumes ==
    [][(/\ last'.op = "resize"
        /\ SomeVolumeNull(species_list)
        /\ volume_resize_from(self, last'.use_target_volume) # Zero)
       => (/\ last'.raised = "none"
           /\ total_target_volume' = last'.new_total_target_volume
           /\ Len(species_list') = Len(species_list)
           /\ \A k \in 1..Len(species_list) :
                 species_list'[k].target_volume =
                    (IF IsNone(species_list[k].target_volume) THEN None
                     ELSE QMul(QDiv(last'.new_total_target_volume,
                                    volume_resize_from(self, last'.use_target_volume)),
                               species_list[k].target_volume)))]_vars

\* what C7 says of a step of resize from basis
ResizeScalesFrom(basis) ==
    /\ last'.raised = "none"
    /\ total_target_volume' = last'.new_total_target_volume
    /\ Len(species_list') = Len(species_list)
    /\ \A k \in 1..Len(species_list) :
          /\ species_list'[k].target_volume =
                QMul(QDiv(last'.new_total_target_volume, basis),
                     species_list[k].target_volume)
          /\ species_list'[k].target_volume.d > 0
    /\ last'.use_target_volume =>
          /\ QDiv(computed_volume(self), total_target_volume).d > 0
          /\ QDiv(computed_volume(FixedVolumeMix(total_target_volume', species_list')),
                  total_target_volume')
                = QDiv(computed_volume(self), total_target_volume)
    /\ ~last'.use_target_volume =>
          computed_volume(FixedVolumeMix(total_target_volume', species_list'))
             = last'.new_total_target_volume

\* C7 (as claimed): on a mix in which every species has a volume, resize
\* multiplies every volume by new_total / basis and sets the total; with
\* use_target_volume the ratio computed/total is unchanged, without it the
\* computed volume is new_total afterwards.
C7_ResizeScalesAlways ==
    [][(last'.op = "resize" /\ AllVolumesSet(species_list))
       => ResizeScalesFrom(IF last'.use_target_volume THEN total_target_volume
                           ELSE computed_volume(self))]_vars

\* C7 (amended): the same, for a basis that is not zero.
C7_ResizeScales ==
    [][(/\ last'.op = "resize"
        /\ AllVolumesSet(species_list)
        /\ (last'.use_target_volume \/ computed_volume(self) # Zero))
       => ResizeScalesFrom(IF last'.use_target_volume THEN total_target_volume
                           ELSE computed_volume(self))]_vars

\* C7 witness: a resize from the computed volume, which differed from the
\* total, has rescaled two species.
C7_Witness ==
    /\ last.op = "resize"
    /\ last.raised = "none"
    /\ ~last.use_target_volume
    /\ Len(species_list) = 2
    /\ AllVolumesSet(species_list)
    /\ Latest(species_list).target_volume # Zero
    /\ computed_volume(self) = total_target_volume
    /\ Latest(species_list).target_volume \notin {a[4] : a \in AddSpeciesArguments}

\* C8: add_species without a volume records target_conc * total / stock_conc
\* when both concentrations are given and a null volume otherwise, and a
\* null volume leaves computed_volume() as it was.
C8_DerivedVolume ==
    [][(last'.op = "add_species" /\ IsNone(last'.target_volume))
       => (/\ Len(species_list') = Len(species_list) + 1
           /\ Latest(species_list').target_volume =
                 (IF IsNone(last'.stock_conc) \/ IsNone(last'.target_conc)
                  THEN None
                  ELSE QDiv(QMul(last'.target_conc, total_target_volume),
                            last'.stock_conc))
           /\ (IsNone(last'.stock_conc) \/ IsNone(last'.target_conc))
                 => computed_volume(FixedVolumeMix(total_target_volume', species_list'))
                       = computed_volume(self))]_vars

\* C8 witness: stock 1000, target 10, total 100 gave volume 1, next to a
\* species with a null volume, and the computed volume is 1.
C8_Witness ==
    /\ last.op = "add_species"
    /\ last.stock_conc = Q(1000, 1)
    /\ last.target_conc = Q(10, 1)
    /\ IsNone(last.target_volume)
    /\ total_target_volume = Q(100, 1)
    /\ Len(species_list) = 2
    /\ IsNone(species_list[1].target_volume)
    /\ species_list[2].target_volume = Q(1, 1)
    /\ computed_volume(self) = Q(1, 1)

\* the first species, in insertion order, named name; 0 if there is none
FirstInInsertionOrder(species, name) ==
    IF \E k \in 1..Len(species) : species[k].species_name = name
    THEN CHOOSE k \in 1..Len(species) :
            /\ species[k].species_name = name
            /\ \A j \in 1..(k - 1) : species[j].species_name # name
    ELSE 0

\* C9: add_species_relative_to looks at the first species named
\* reference_name: none, it fails with the reference-not-found error; a null
\* target_conc, it fails with the reference-unresolved error; otherwise it
\* appends the species with target_conc = excess * reference.target_conc and
\* target_volume = target_conc * total / stock_conc.  The failures leave the
\* species list unchanged.
C9_RelativeToFirstMatch ==
    [][last'.op = "add_species_relative_to"
       => LET r == FirstInInsertionOrder(species_list, last'.relative_to_species_name)
          IN  IF r = 0
              THEN last'.raised = "ReferenceNotFound" /\ species_list' = species_list
              ELSE IF IsNone(species_list[r].target_conc)
              THEN last'.raised = "ReferenceUnresolved" /\ species_list' = species_list
              ELSE LET target_conc == QMul(last'.excess, species_list[r].target_conc)
                   IN  species_list' =
                          Append(species_list,
                                 MixSpecies(last'.species_name, last'.stock_conc,
                                            target_conc,
                                            QDiv(QMul(target_conc, total_target_volume),
                                                 last'.stock_conc)))]_vars

\* C9 witness: the call failed with the reference-unresolved error although
\* a later species of that name has a target_conc.
C9_Witness ==
    /\ last.op = "add_species_relative_to"
    /\ last.raised = "ReferenceUnresolved"
    /\ Len(species_list) = 2
    /\ species_list[1].species_name = last.relative_to_species_name
    /\ species_list[2].species_name = last.relative_to_species_name
    /\ IsNone(species_list[1].target_conc)
    /\ ~IsNone(species_list[2].target_conc)

\* ------------------------------------------------------------------------
\* Properties of create_targets
\* ------------------------------------------------------------------------
MutatingCalls == {n \in 1..Len(calls) : calls[n] # "worksheet"}

\* C2: create_targets issues no call that changes the workbook before every
\* mix of the layout has been parsed and tabled, and none at all when
\* mix_parser raises for a cell.
C2_NoCallBeforeManifest ==
    /\ MutatingCalls # {} => pc \in {"write", "done"}
    /\ (pc = "raised" /\ raised_by = "mix_parser") => MutatingCalls = {}

Bottom(t) == t.table_position[1] + t.height

Right(t) == t.table_position[2] + t.width

Overlap(t, u) ==
    /\ t.table_position[1] < Bottom(u)
    /\ u.table_position[1] < Bottom(t)
    /\ t.table_position[2] < Right(u)
    /\ u.table_position[2] < Right(t)

PairwiseNonOverlapping ==
    \A m, n \in 1..Len(tables) : m < n => ~Overlap(tables[m], tables[n])

ScaledFrom(mix, parsed, count) ==
    /\ mix.total_target_volume = QMul(parsed.total_target_volume, Q(count, 1))
    /\ Len(mix.species_list) = Len(parsed.species_list)
    /\ \A n \in 1..Len(parsed.species_list) :
          LET before == parsed.species_list[n].target_volume
              after == mix.species_list[n].target_volume
          IN  IF IsNone(before) THEN IsNone(after)
              ELSE after = QMul(before, Q(count, 1))

TablesOf(sample_desc) == {n \in 1..Len(tables) : tables[n].sample_desc = sample_desc}

SampleCells ==
    {cell \in (0..(NumRows - 1)) \X (0..(NumCols - 1)) :
        /\ layout_values[cell[1] + 2][cell[2] + 2] # ""
        /\ layout_values[cell[1] + 2][cell[2] + 2] # empty_desc}

SampleLabels == {layout_values[cell[1] + 2][cell[2] + 2] : cell \in SampleCells}

CellsOf(sample_desc) ==
    {cell \in SampleCells : layout_values[cell[1] + 2][cell[2] + 2] = sample_desc}

\* C10: once create_targets is over (the sheet did not exist, mix_parser did
\* not raise): with merge_repeats one table is placed for each label other
\* than the empty sentinel, from the parser's mix resized to the number of
\* cells of the label times its total; without merge_repeats one table is
\* placed for each cell with such a label, from the parser's mix as it is.
C10_OneTablePerLabel ==
    (pc = "done" \/ (pc = "raised" /\ raised_by = "resize")) =>
        /\ \A n \in 1..Len(tables) : tables[n].sample_desc \in SampleLabels
        /\ IF merge_repeats
           THEN \A sample_desc \in SampleLabels :
                   /\ Cardinality(TablesOf(sample_desc)) = 1
                   /\ \A n \in TablesOf(sample_desc) :
                         ScaledFrom(tables[n].mix, mix_parser(sample_desc),
                                    Cardinality(CellsOf(sample_desc)))
           ELSE /\ Len(tables) = Cardinality(SampleCells)
                /\ \A cell \in SampleCells :
                      \E n \in 1..Len(tables) :
                         /\ tables[n].cell = cell
                         /\ tables[n].mix = mix_parser(tables[n].sample_desc)

\* the label of the cell (r, c) of the layout sheet, rows and columns from 0
LabelAt(r, c) == layout_values[r + 2][c + 2]

FirstNonBlankRow ==
    CHOOSE r \in 0..(NumRows - 1) :
        /\ \E c \in 0..(NumCols - 1) : LabelAt(r, c) # ""
        /\ \A r2 \in 0..(r - 1), c \in 0..(NumCols - 1) : LabelAt(r2, c) = ""

FirstNonBlankCol ==
    CHOOSE c \in 0..(NumCols - 1) :
        /\ \E r \in 0..(NumRows - 1) : LabelAt(r, c) # ""
        /\ \A c2 \in 0..(c - 1), r \in 0..(NumRows - 1) : LabelAt(r, c2) = ""

NoLeadingSpace ==
    /\ i0 = FirstNonBlankRow
    /\ j0 = FirstNonBlankCol
    /\ \E n \in 1..Len(tables) : tables[n].title_position[1] = 0
    /\ \E n \in 1..Len(tables) : tables[n].table_position[2] = 0

NoSentinel ==
    \A r \in 0..(NumRows - 1), c \in 0..(NumCols - 1) : LabelAt(r, c) # empty_desc

\* C11 as stated: whenever create_targets has placed a table, i0 and j0 are
\* the first non-blank row and column, some title starts at row 0 and some
\* table starts at column 0.
C11_NoLeadingSpaceAlways == (pc = "done" /\ tables # <<>>) => NoLeadingSpace

\* C11: whenever create_targets has placed a table from a layout that holds
\* no empty sentinel, or whose first non-blank row holds a label other than
\* the sentinel and whose first non-blank column holds a cell with a table,
\* i0 and j0 are the first non-blank row and column, some title starts at
\* row 0 and some table starts at column 0.
C11_NoLeadingSpace ==
    (/\ pc = "done"
     /\ tables # <<>>
     /\ \/ NoSentinel
        \/ /\ \E c \in 0..(NumCols - 1) :
                 LabelAt(FirstNonBlankRow, c) \notin {"", empty_desc}
           /\ \E n \in 1..Len(tables) : tables[n].cell[2] = FirstNonBlankCol)
        => NoLeadingSpace

C11_Witness ==
    /\ pc = "done"
    /\ tables # <<>>
    /\ NoSentinel
    /\ \A c \in 0..(NumCols - 1) : LabelAt(0, c) = ""
    /\ \A r \in 0..(NumRows - 1) : LabelAt(r, 0) = ""
    /\ NoLeadingSpace

\* ------------------------------------------------------------------------
\* Properties of check_target_volume_is_met
\* ------------------------------------------------------------------------
\* C12: check_target_volume_is_met raises exactly when computed_volume() is
\* not within the relative tolerance of total_target_volume, leaves the mix
\* as it is, and raises an exception of another class than the one
\* add_species raises on over-allocation.
C12_VolumeNotMetIsDistinct ==
    [][last'.op = "check_target_volume_is_met" =>
          /\ (last'.raised # "none") <=>
                 ~isclose(computed_volume(self), total_target_volume)
          /\ total_target_volume' = total_target_volume
          /\ species_list' = species_list
          /\ last'.raised # "none" =>
                 ExceptionClass(last'.raised) # ExceptionClass("OverAllocatedVolume")]_vars

\* ------------------------------------------------------------------------
\* Properties of extract_layout_from_layout_sheet
\* ------------------------------------------------------------------------
\* create_targets has read the layout
LayoutRead == pc \notin {"start", "layout"} /\ raised_by # "overwrite_target_sheet"

AllLabelCells == (0..(NumRows - 1)) \X (0..(NumCols - 1))

\* the coordinate of the cell (r, c), and its rank in the row-major scan
CoordinateOf(cell) == <<RowLetters[cell[1] + 1], cell[2] + 1>>

RankOf(coordinate) ==
    LET r == CHOOSE l \in DOMAIN RowLetters : RowLetters[l] = coordinate[1]
    IN  (r - 1) * NumCols + coordinate[2]

\* C13: the layout read from the sheet has one entry for each non-blank
\* label, which lists the coordinates of the cells with that label, each
\* once, in the order of the row-major scan; blank cells are under no label.
C13_LayoutListsEveryCell ==
    LayoutRead =>
        /\ DOMAIN layout = {LabelAt(cell[1], cell[2]) : cell \in AllLabelCells} \ {""}
        /\ \A label \in DOMAIN layout :
              LET cells == {cell \in AllLabelCells : LabelAt(cell[1], cell[2]) = label}
                  listed == layout[label]
              IN  /\ Len(listed) = Cardinality(cells)
                  /\ {listed[n] : n \in 1..Len(listed)} = {CoordinateOf(cell) : cell \in cells}
                  /\ \A m, n \in 1..Len(listed) :
                        m < n => RankOf(listed[m]) < RankOf(listed[n])

C13_Witness ==
    /\ LayoutRead
    /\ \E cell \in AllLabelCells : LabelAt(cell[1], cell[2]) = ""
    /\ \E label \in DOMAIN layout :
          /\ Len(layout[label]) = 2
          /\ layout[label][1][1] # layout[label][2][1]
    /\ \E label \in DOMAIN layout :
          /\ Len(layout[label]) = 1

\* ------------------------------------------------------------------------
\* Properties of the rows of the Targets sheet
\* ------------------------------------------------------------------------
AllBlankRow(r) == \A c \in 0..(NumCols - 1) : LabelAt(r, c) = ""

\* no cell of row r holds a sample: each is blank or holds the empty sentinel
NoSampleRow(r) == \A c \in 0..(NumCols - 1) : LabelAt(r, c) \in {"", empty_desc}

\* every non-blank cell of row r repeats a label of an earlier row
RepeatOnlyRow(r) ==
    /\ ~AllBlankRow(r)
    /\ \A c \in 0..(NumCols - 1) :
          LabelAt(r, c) # "" =>
              \E r2 \in 0..(r - 1), c2 \in 0..(NumCols - 1) : LabelAt(r2, c2) = LabelAt(r, c)

\* the rows that the tables placed by the step take, titles included
TallestPlaced ==
    LET heights == {tables'[n].height + (IF place_titles_above_tables THEN 1 ELSE 0) :
                       n \in (Len(tables) + 1)..Len(tables')}
    IN  IF heights = {} THEN 0
        ELSE CHOOSE h \in heights : \A h2 \in heights : h2 <= h

\* C14: the scan of a row that holds no sample advances current_row by
\* row_spacing and empty_row_filler; with merge_repeats, the scan of a row
\* with samples that all repeat labels of earlier rows leaves current_row as
\* it is; the scan of any other row advances current_row by the tallest
\* table placed and row_spacing, without empty_row_filler.
C14_RepeatOnlyRowsCollapse ==
    [][(pc = "scan" /\ pc' \in {"scan", "write"}) =>
          current_row' - current_row =
              IF NoSampleRow(loop_i) THEN row_spacing + empty_row_filler
              ELSE IF merge_repeats /\ RepeatOnlyRow(loop_i) THEN 0
              ELSE TallestPlaced + row_spacing]_vars

\* ------------------------------------------------------------------------
\* Properties of the formulas
\* ------------------------------------------------------------------------
\* the formula of a species of the mixes of mix_parser, by the call that
\* added it: "F" by add_species_volume_fraction, "W" by
\* add_species_volume_complete_with, the others by add_species
FormulaOf(species_name) ==
    CASE species_name = "F" -> "=total/inverse_fraction"
      [] species_name = "W" -> "=total-SUM(volumes)"
      [] OTHER -> "=target_conc*total/stock_conc"

\* C15: with insert_formulas_instead_of_values, the construction of a table
\* does not raise and every volume cell of a placed table holds the formula
\* of the call that added its species.
C15_FormulaInEveryVolumeCell ==
    insert_formulas_instead_of_values =>
        /\ raised_by # "create_gsheets_table"
        /\ \A n \in 1..Len(tables) :
              \A k \in 1..Len(tables[n].mix.species_list) :
                 tables[n].volume_cells[k] =
                     FormulaOf(tables[n].mix.species_list[k].species_name)

\* ------------------------------------------------------------------------
\* Properties of the alignment with the layout
\* ------------------------------------------------------------------------
\* C16: tables placed from the same layout column start at the same column,
\* tables placed from the same layout row start at the same row, a table from
\* a later layout column starts further right by a multiple of
\* max_col_size + column_spacing, and without merge_repeats the table of
\* layout column j starts at column (j - j0) * (max_col_size + column_spacing).
C16_AlignedWithLayout ==
    /\ \A m, n \in 1..Len(tables) :
          LET t == tables[m]
              u == tables[n]
          IN  /\ t.cell[2] = u.cell[2] => t.table_position[2] = u.table_position[2]
              /\ t.cell[1] = u.cell[1] => t.table_position[1] = u.table_position[1]
              /\ t.cell[2] < u.cell[2] =>
                    /\ t.table_position[2] < u.table_position[2]
                    /\ (u.table_position[2] - t.table_position[2])
                          % (max_col_size + column_spacing) = 0
    /\ ~merge_repeats =>
          \A n \in 1..Len(tables) :
             tables[n].table_position[2] =
                 (tables[n].cell[2] - j0) * (max_col_size + column_spacing)

C16_Witness ==
    /\ pc = "done"
    /\ \E m, n \in 1..Len(tables) :
          /\ m # n
          /\ tables[m].cell[2] = tables[n].cell[2]
    /\ \E m, n \in 1..Len(tables) :
          /\ tables[m].cell[1] = tables[n].cell[1]
          /\ tables[m].cell[2] < tables[n].cell[2]

\* ------------------------------------------------------------------------
\* Properties of the ranges
\* ------------------------------------------------------------------------
\* the column (from 0) that a sequence of column letters names on the sheet
RECURSIVE ColumnNamed(_)
ColumnNamed(letters) ==
    IF letters = <<>> THEN -1
    ELSE LET letter == CHOOSE l \in DOMAIN Alphabet : Alphabet[l] = letters[Len(letters)]
         IN  (ColumnNamed(SubSeq(letters, 1, Len(letters) - 1)) + 1) * Len(Alphabet)
                 + letter - 1

\* the cells (row, column from 0) of an A1 range, both ends included
CellsOfRange(range) ==
    ((range.from.row - 1)..(range.to.row - 1))
        \X (ColumnNamed(range.from.col_str)..ColumnNamed(range.to.col_str))

CellsOfTable(t) ==
    (t.table_position[1]..(t.table_position[1] + t.height - 1))
        \X (t.table_position[2]..(t.table_position[2] + t.width - 1))

CellsOfBanding(banding) ==
    (banding.startRowIndex..(banding.endRowIndex - 1))
        \X (banding.startColumnIndex..(banding.endColumnIndex - 1))

\* C17: the range of the values of every placed table covers the cells of
\* the table and no other, as the range of its banding does, and the ranges
\* of the values of two tables that do not overlap share no cell.
C17_ValueRangeIsTheTable ==
    /\ \A n \in 1..Len(tables) :
          /\ CellsOfBanding(tables[n].update.banding) = CellsOfTable(tables[n])
          /\ CellsOfRange(tables[n].update.sheet_range) = CellsOfTable(tables[n])
    /\ \A m, n \in 1..Len(tables) :
          (m < n /\ ~Overlap(tables[m], tables[n])) =>
              CellsOfRange(tables[m].update.sheet_range)
                  \cap CellsOfRange(tables[n].update.sheet_range) = {}
====
